---- MODULE Spec2Model ----
(***************************************************************************)
(* Kling AI video generator (src/app.py): a Streamlit script that is       *)
(* re-executed from the top on every user action of a browser session.     *)
(* A run chooses SAVE_DIR, processes the uploaded image, lists the stored  *)
(* videos, and, when the generate button was pressed, calls the inference  *)
(* service, downloads the result and stores it under a timestamped name.   *)
(* Sessions run concurrently in one process and share the filesystem.      *)
(*                                                                         *)
(* Spec is the whole system.  SpecSession lets one session act, with every *)
(* input and the clock; SpecShared lets all sessions act on one kind of    *)
(* request within one second of the clock.  Both are sub-behaviours of     *)
(* Spec that can be enumerated.                                            *)
(*                                                                         *)
(* Text is modelled as sequences of one-character strings so that          *)
(* endswith, startswith, replace, the lexicographic sort and the           *)
(* timestamp formatting and parsing are computed, not assumed.             *)
(***************************************************************************)
EXTENDS Integers, Sequences, FiniteSets, TLC

(***************************************************************************)
(* Bounds of the model.                                                    *)
(***************************************************************************)
\* the wall clock takes the values 0 .. MaxClock (seconds after ClockOrigin)
MaxClock == 2
\* number of temporary directories tempfile.mkdtemp() may hand out
MaxTmp == 2

Sessions == {"s1", "s2"}

(***************************************************************************)
(* Characters and strings.                                                 *)
(***************************************************************************)
Digits == <<"0", "1", "2", "3", "4", "5", "6", "7", "8", "9">>

\* the characters used by the model, in increasing code point order
AsciiOrder ==
  <<".", "/", "0", "1", "2", "3", "4", "5", "6", "7", "8", "9", ":", "_",
    "a", "b", "c", "d", "e", "f", "g", "h", "i", "j", "k", "l", "m", "n",
    "o", "p", "q", "r", "s", "t", "u", "v", "w", "x", "y", "z">>

Ord(c) == CHOOSE i \in 1..Len(AsciiOrder) : AsciiOrder[i] = c

IsDigit(c) == \E i \in 1..Len(Digits) : Digits[i] = c

DigitValue(c) == (CHOOSE i \in 1..Len(Digits) : Digits[i] = c) - 1

Min(a, b) == IF a < b THEN a ELSE b

\* Python's comparison of two str values: a < b
StrLess(a, b) ==
  \/ \E i \in 1..Min(Len(a), Len(b)) :
        /\ \A j \in 1..(i - 1) : a[j] = b[j]
        /\ Ord(a[i]) < Ord(b[i])
  \/ /\ Len(a) < Len(b)
     /\ \A j \in 1..Len(a) : a[j] = b[j]

StartsWith(s, p) ==
  /\ Len(p) <= Len(s)
  /\ SubSeq(s, 1, Len(p)) = p

EndsWith(s, p) ==
  /\ Len(p) <= Len(s)
  /\ SubSeq(s, Len(s) - Len(p) + 1, Len(s)) = p

\* str.replace(old, ''): every non-overlapping occurrence of old is removed
RECURSIVE RemoveAll(_, _)
RemoveAll(s, old) ==
  IF Len(s) = 0 THEN s
  ELSE IF StartsWith(s, old) THEN RemoveAll(SubSeq(s, Len(old) + 1, Len(s)), old)
  ELSE <<Head(s)>> \o RemoveAll(Tail(s), old)

(***************************************************************************)
(* Wall clock and datetime.                                                *)
(***************************************************************************)
ClockOrigin ==
  [year |-> 2024, month |-> 9, day |-> 30, hour |-> 23, minute |-> 59, second |-> 58]

IsLeap(y) == (y % 4 = 0 /\ y % 100 # 0) \/ y % 400 = 0

DaysInMonth(y, m) ==
  IF m = 2 THEN (IF IsLeap(y) THEN 29 ELSE 28)
  ELSE IF m \in {4, 6, 9, 11} THEN 30 ELSE 31

NextSecond(t) ==
  IF t.second < 59 THEN [t EXCEPT !.second = t.second + 1]
  ELSE IF t.minute < 59 THEN [t EXCEPT !.second = 0, !.minute = t.minute + 1]
  ELSE IF t.hour < 23 THEN [t EXCEPT !.second = 0, !.minute = 0, !.hour = t.hour + 1]
  ELSE IF t.day < DaysInMonth(t.year, t.month)
    THEN [t EXCEPT !.second = 0, !.minute = 0, !.hour = 0, !.day = t.day + 1]
  ELSE IF t.month < 12
    THEN [t EXCEPT !.second = 0, !.minute = 0, !.hour = 0, !.day = 1,
                   !.month = t.month + 1]
  ELSE [t EXCEPT !.second = 0, !.minute = 0, !.hour = 0, !.day = 1, !.month = 1,
                 !.year = t.year + 1]

\* datetime.datetime.now() when the clock reads n
RECURSIVE DateTimeNow(_)
DateTimeNow(n) == IF n = 0 THEN ClockOrigin ELSE NextSecond(DateTimeNow(n - 1))

\* the decimal digits of n, most significant first
RECURSIVE Decimal(_)
Decimal(n) == IF n < 10 THEN <<Digits[n + 1]>> ELSE Decimal(n \div 10) \o <<Digits[(n % 10) + 1]>>

RECURSIVE ZeroPad(_, _)
ZeroPad(s, w) == IF Len(s) >= w THEN s ELSE ZeroPad(<<"0">> \o s, w)

\* a two-digit strftime field (%m %d %H %M %S)
Pad2(n) == ZeroPad(Decimal(n), 2)

\* strftime("%Y%m%d_%H%M%S")
Strftime(t) ==
  ZeroPad(Decimal(t.year), 4) \o Pad2(t.month) \o Pad2(t.day) \o <<"_">>
    \o Pad2(t.hour) \o Pad2(t.minute) \o Pad2(t.second)

Number(s) ==
  LET RECURSIVE Acc(_, _)
      Acc(r, v) == IF Len(r) = 0 THEN v ELSE Acc(Tail(r), 10 * v + DigitValue(Head(r)))
  IN Acc(s, 0)

ValueError == [error |-> "ValueError"]

\* datetime.strptime(s, "%Y%m%d_%H%M%S") on fixed-width text; anything that is not
\* fourteen digits around an underscore naming a real date and time raises ValueError
Strptime(s) ==
  IF /\ Len(s) = 15
     /\ s[9] = "_"
     /\ \A i \in (1..15) \ {9} : IsDigit(s[i])
  THEN LET t == [year   |-> Number(SubSeq(s, 1, 4)),
                 month  |-> Number(SubSeq(s, 5, 6)),
                 day    |-> Number(SubSeq(s, 7, 8)),
                 hour   |-> Number(SubSeq(s, 10, 11)),
                 minute |-> Number(SubSeq(s, 12, 13)),
                 second |-> Number(SubSeq(s, 14, 15))]
       IN IF /\ t.year >= 1
             /\ t.month \in 1..12
             /\ t.day >= 1
             /\ t.day <= DaysInMonth(t.year, t.month)
             /\ t.hour <= 23
             /\ t.minute <= 59
             /\ t.second <= 61
          THEN t
          ELSE ValueError
  ELSE ValueError

(***************************************************************************)
(* File names.                                                             *)
(***************************************************************************)
Prefix == <<"k", "l", "i", "n", "g", "_", "v", "i", "d", "e", "o", "_">>

Suffix == <<".", "m", "p", "4">>

\* f"kling_video_{timestamp}.mp4"
VideoName(t) == Prefix \o Strftime(t) \o Suffix

\* the timestamp the history parses out of a file name
ParseName(video) == Strptime(RemoveAll(RemoveAll(video, Prefix), Suffix))

(***************************************************************************)
(* Values of the user interface and of the external services.              *)
(***************************************************************************)
None == [none |-> TRUE]

\* color modes of the decoded upload; "undecodable" makes Image.open raise
Modes == {"RGB", "RGBA", "LA", "CMYK"}

NoFile == [present |-> FALSE, mode |-> "none"]

Uploads == {NoFile} \cup {[present |-> TRUE, mode |-> m] : m \in Modes \cup {"undecodable"}}

\* values of the other widgets (cfg_scale in tenths)
DefaultForm ==
  [prompt |-> "", duration |-> 5, cfg_scale |-> 5, aspect_ratio |-> "16:9",
   negative_prompt |-> ""]

Forms ==
  { DefaultForm,
    [prompt |-> "a cat", duration |-> 10, cfg_scale |-> 10, aspect_ratio |-> "9:16",
     negative_prompt |-> "blur"] }

Http == <<"h", "t", "t", "p", ":", "/", "/">>

Https == <<"h", "t", "t", "p", "s", ":", "/", "/">>

\* what replicate.run may produce
Outputs ==
  { [type |-> "exception", value |-> <<>>],
    [type |-> "none", value |-> <<>>],
    [type |-> "list", value |-> <<>>],
    [type |-> "str", value |-> <<>>],
    [type |-> "str", value |-> Https \o <<"v">>],
    [type |-> "str", value |-> Http \o <<"v">>],
    [type |-> "str", value |-> <<"h", "t", "t", "p", "x">>] }

\* bodies a download may carry
Bodies == {<<1>>, <<2, 2>>}

Statuses == {200, 203, 404}

\* what requests.get may produce
Responses ==
  {[kind |-> "exception", status_code |-> 0, content |-> <<>>]}
    \cup {[kind |-> "response", status_code |-> c, content |-> b] : c \in Statuses, b \in Bodies}

(***************************************************************************)
(* Directories and files.                                                  *)
(***************************************************************************)
NoDir == <<>>

LocalDir == <<"generated_videos">>

TmpDir(n) == <<"tmp", n>>

NotesMp4 == <<"n", "o", "t", "e", "s">> \o Suffix

ReadmeTxt == <<"r", "e", "a", "d", "m", "e", ".", "t", "x", "t">>

\* files other programs may have left in the local folder before the process starts
ForeignFiles == {NotesMp4, ReadmeTxt}

\* os.path.join(dir, name)
Join(dir, name) == [dir |-> dir, name |-> name]

\* open(path, "wb"): the file is created, or truncated when it exists
OpenForWrite(files, path) ==
  [files EXCEPT ![path.dir] = (path.name :> <<>>) @@ files[path.dir]]

\* the file's content after writing data at offset 0 through a fresh descriptor
Overlay(old, data) ==
  IF Len(data) >= Len(old) THEN data ELSE data \o SubSeq(old, Len(data) + 1, Len(old))

WriteFile(files, path, data) ==
  [files EXCEPT ![path.dir] =
     (path.name :> Overlay(files[path.dir][path.name], data)) @@ files[path.dir]]

ReadFile(files, path) == files[path.dir][path.name]

(***************************************************************************)
(* Pure steps of the script.                                               *)
(***************************************************************************)
\* image.convert('RGB') when image.mode == 'RGBA'
ConvertMode(m) == IF m = "RGBA" THEN "RGB" ELSE m

\* image.save(buffered, format="PNG") raises for modes PNG cannot hold
PngWritable(m) == m \in {"1", "L", "LA", "I", "P", "RGB", "RGBA"}

\* image_to_base64: a PNG data URL of the image, in the image's mode
ImageToBase64(m) == [mime |-> "image/png", mode |-> m]

NoUploadNever(up) == FALSE

\* not uploaded_file
NoUpload(up) == ~up.present

\* if output:
Truthy(o) == o.type = "list" \/ (o.type = "str" /\ Len(o.value) > 0)

\* isinstance(output, str) and output starts with http:// or https://
IsLocator(o) ==
  /\ o.type = "str"
  /\ (StartsWith(o.value, Http) \/ StartsWith(o.value, Https))

StatusOkAlways(r) == TRUE

\* response.status_code == 200
StatusOk(r) == r.status_code = 200

SortsBeforeAscending(a, b) == StrLess(a, b)

\* order of videos.sort(reverse=True): a is placed before b
SortsBefore(a, b) == StrLess(b, a)

\* the sorted list of a set of distinct names
RECURSIVE SortNames(_)
SortNames(S) ==
  IF S = {} THEN <<>>
  ELSE LET first == CHOOSE a \in S : \A b \in S \ {a} : SortsBefore(a, b)
       IN <<first>> \o SortNames(S \ {first})

\* [f for f in os.listdir(SAVE_DIR) if f.endswith('.mp4')]
Mp4Names(files, dir) == {f \in DOMAIN files[dir] : EndsWith(f, Suffix)}

\* number of loop iterations of the history that complete: the loop stops at the
\* first name strptime rejects
Completed(vs) ==
  LET bad == {i \in 1..Len(vs) : ParseName(vs[i]) = ValueError}
  IN IF bad = {} THEN Len(vs) ELSE (CHOOSE i \in bad : \A j \in bad : i <= j) - 1

(***************************************************************************)
(* State.                                                                  *)
(***************************************************************************)
VARIABLES
  sharing,           \* whether STREAMLIT_SHARING is set in the environment
  fs,                \* directory -> file name -> content
  tmpCount,          \* temporary directories handed out by tempfile.mkdtemp()
  now,               \* the wall clock, in seconds after ClockOrigin
  pc,                \* position of each session's script run
  SAVE_DIR,          \* the module-level SAVE_DIR of the session's current run
  uploaded_file,     \* widget values of the run
  generate_button,
  form,
  start_image_url,   \* the data URL built from the upload, or None
  videos,            \* the sorted list the history builds
  shown,             \* what st.video showed in the history: path and content read
  request,           \* the input handed to replicate.run, or None
  output,            \* what replicate.run returned
  response,          \* what requests.get returned in save_video
  filepath,          \* save_video's filepath
  saved_path,        \* main's saved_path
  preview,           \* what st.video(saved_path) showed: path and content read
  messages,          \* messages the run put on the page
  status,            \* label state of the st.status box
  replicate_calls,   \* calls of replicate.run in the run
  save_video_calls,  \* calls of save_video in the run
  touched            \* files of SAVE_DIR the run created or wrote

shared == <<sharing, fs, tmpCount, now>>

inputs == <<uploaded_file, generate_button, form, start_image_url>>

listing == <<videos, shown>>

inference == <<request, output, replicate_calls>>

saving == <<response, filepath, saved_path, preview, save_video_calls, touched>>

page == <<messages, status>>

vars == <<shared, pc, SAVE_DIR, inputs, listing, inference, saving, page>>

NoResponse == [kind |-> "none", status_code |-> 0, content |-> <<>>]

NoOutput == [type |-> "unset", value |-> <<>>]

\* messages that tell the user something went wrong; an exception nothing catches
\* is rendered on the page by the framework
ErrorMessages ==
  {"error_processing_image", "upload_required", "inference_error",
   "error_saving_video", "uncaught_exception"}

\* contents the local folder may hold when the process starts
InitialFolders ==
  {<<>>} \cup
  {LocalDir :> [f \in F |-> <<1>>] : F \in SUBSET ForeignFiles}

Init ==
  /\ sharing \in BOOLEAN
  /\ fs \in (IF sharing THEN {<<>>} ELSE InitialFolders)
  /\ tmpCount = 0
  /\ now = 0
  /\ pc = [s \in Sessions |-> "idle"]
  /\ SAVE_DIR = [s \in Sessions |-> NoDir]
  /\ uploaded_file = [s \in Sessions |-> NoFile]
  /\ generate_button = [s \in Sessions |-> FALSE]
  /\ form = [s \in Sessions |-> DefaultForm]
  /\ start_image_url = [s \in Sessions |-> None]
  /\ videos = [s \in Sessions |-> <<>>]
  /\ shown = [s \in Sessions |-> <<>>]
  /\ request = [s \in Sessions |-> None]
  /\ output = [s \in Sessions |-> NoOutput]
  /\ response = [s \in Sessions |-> NoResponse]
  /\ filepath = [s \in Sessions |-> None]
  /\ saved_path = [s \in Sessions |-> None]
  /\ preview = [s \in Sessions |-> None]
  /\ messages = [s \in Sessions |-> {}]
  /\ status = [s \in Sessions |-> "none"]
  /\ replicate_calls = [s \in Sessions |-> 0]
  /\ save_video_calls = [s \in Sessions |-> 0]
  /\ touched = [s \in Sessions |-> {}]

(***************************************************************************)
(* The wall clock advances.                                                *)
(***************************************************************************)
Tick ==
  /\ now < MaxClock
  /\ now' = now + 1
  /\ UNCHANGED <<sharing, fs, tmpCount, pc, SAVE_DIR, inputs, listing, inference,
                 saving, page>>

(***************************************************************************)
(* A user action re-executes the script: the module level chooses SAVE_DIR *)
(* and main() runs the generator tab, which processes the upload.          *)
(***************************************************************************)
Rerun(s, ups, fms) ==
  /\ pc[s] \in {"idle", "done"}
  /\ sharing => tmpCount < MaxTmp
  /\ \E up \in ups, gb \in BOOLEAN, f \in fms :
       LET decoded == up.present /\ up.mode # "undecodable"
           mode == ConvertMode(up.mode)
           failed == up.present /\ (~decoded \/ ~PngWritable(mode))
       IN /\ uploaded_file' = [uploaded_file EXCEPT ![s] = up]
          /\ generate_button' = [generate_button EXCEPT ![s] = gb]
          /\ form' = [form EXCEPT ![s] = f]
          /\ start_image_url' =
               [start_image_url EXCEPT ![s] =
                  IF decoded /\ ~failed THEN ImageToBase64(mode) ELSE None]
          /\ messages' =
               [messages EXCEPT ![s] = IF failed THEN {"error_processing_image"} ELSE {}]
          /\ pc' = [pc EXCEPT ![s] = IF failed THEN "done" ELSE "history"]
  /\ IF sharing
       THEN /\ tmpCount' = tmpCount + 1
            /\ SAVE_DIR' = [SAVE_DIR EXCEPT ![s] = TmpDir(tmpCount + 1)]
            /\ fs' = (TmpDir(tmpCount + 1) :> <<>>) @@ fs
       ELSE /\ tmpCount' = tmpCount
            /\ SAVE_DIR' = [SAVE_DIR EXCEPT ![s] = LocalDir]
            /\ fs' = IF LocalDir \in DOMAIN fs THEN fs ELSE (LocalDir :> <<>>) @@ fs
  /\ videos' = [videos EXCEPT ![s] = <<>>]
  /\ shown' = [shown EXCEPT ![s] = <<>>]
  /\ request' = [request EXCEPT ![s] = None]
  /\ output' = [output EXCEPT ![s] = NoOutput]
  /\ response' = [response EXCEPT ![s] = NoResponse]
  /\ filepath' = [filepath EXCEPT ![s] = None]
  /\ saved_path' = [saved_path EXCEPT ![s] = None]
  /\ preview' = [preview EXCEPT ![s] = None]
  /\ status' = [status EXCEPT ![s] = "none"]
  /\ replicate_calls' = [replicate_calls EXCEPT ![s] = 0]
  /\ save_video_calls' = [save_video_calls EXCEPT ![s] = 0]
  /\ touched' = [touched EXCEPT ![s] = {}]
  /\ UNCHANGED <<sharing, now>>

(***************************************************************************)
(* The history tab lists SAVE_DIR, sorts, and parses and plays each entry; *)
(* then main() looks at the generate button.                               *)
(***************************************************************************)
History(s) ==
  /\ pc[s] = "history"
  /\ LET vs == SortNames(Mp4Names(fs, SAVE_DIR[s]))
         k == Completed(vs)
         raised == k < Len(vs)
     IN /\ videos' = [videos EXCEPT ![s] = vs]
        /\ shown' =
             [shown EXCEPT ![s] =
                [i \in 1..k |->
                   [path |-> Join(SAVE_DIR[s], vs[i]),
                    content |-> ReadFile(fs, Join(SAVE_DIR[s], vs[i]))]]]
        /\ messages' =
             [messages EXCEPT ![s] =
                (IF vs = <<>> THEN {"no_history"} ELSE {})
                  \cup (IF raised THEN {"uncaught_exception"}
                        ELSE IF generate_button[s] /\ NoUpload(uploaded_file[s])
                          THEN {"upload_required"}
                        ELSE {})]
        /\ pc' =
             [pc EXCEPT ![s] =
                IF raised \/ ~generate_button[s] \/ NoUpload(uploaded_file[s])
                  THEN "done" ELSE "inference"]
        /\ status' =
             [status EXCEPT ![s] =
                IF raised \/ ~generate_button[s] \/ NoUpload(uploaded_file[s])
                  THEN "none" ELSE "processing"]
  /\ UNCHANGED <<shared, SAVE_DIR, inputs, inference, saving>>

(***************************************************************************)
(* replicate.run and what main() does with its output.                     *)
(***************************************************************************)
Replicate(s, outs) ==
  /\ pc[s] = "inference"
  /\ \E o \in outs :
       /\ output' = [output EXCEPT ![s] = o]
       /\ request' =
            [request EXCEPT ![s] =
               [prompt |-> form[s].prompt, duration |-> form[s].duration,
                cfg_scale |-> form[s].cfg_scale, start_image |-> start_image_url[s],
                aspect_ratio |-> form[s].aspect_ratio,
                negative_prompt |-> form[s].negative_prompt]]
       /\ replicate_calls' = [replicate_calls EXCEPT ![s] = @ + 1]
       /\ IF o.type = "exception"
            THEN /\ messages' = [messages EXCEPT ![s] = @ \cup {"inference_error"}]
                 /\ status' = [status EXCEPT ![s] = "error"]
                 /\ pc' = [pc EXCEPT ![s] = "done"]
                 /\ UNCHANGED save_video_calls
            ELSE IF ~Truthy(o)
            THEN /\ pc' = [pc EXCEPT ![s] = "done"]
                 /\ UNCHANGED <<messages, status, save_video_calls>>
            ELSE IF IsLocator(o)
            THEN /\ status' = [status EXCEPT ![s] = "complete"]
                 /\ save_video_calls' = [save_video_calls EXCEPT ![s] = @ + 1]
                 /\ pc' = [pc EXCEPT ![s] = "fetch"]
                 /\ UNCHANGED messages
            ELSE /\ status' = [status EXCEPT ![s] = "complete"]
                 /\ messages' = [messages EXCEPT ![s] = @ \cup {"output_written"}]
                 /\ pc' = [pc EXCEPT ![s] = "done"]
                 /\ UNCHANGED save_video_calls
  /\ UNCHANGED <<shared, SAVE_DIR, inputs, listing, response, filepath, saved_path,
                 preview, touched>>

(***************************************************************************)
(* save_video: the download, the file name, open, write, return.           *)
(***************************************************************************)
Fetch(s, rs) ==
  /\ pc[s] = "fetch"
  /\ \E r \in rs :
       /\ response' = [response EXCEPT ![s] = r]
       /\ IF r.kind = "exception"
            THEN /\ messages' = [messages EXCEPT ![s] = @ \cup {"error_saving_video"}]
                 /\ pc' = [pc EXCEPT ![s] = "done"]
                 /\ UNCHANGED filepath
            ELSE IF ~StatusOk(r)
            THEN /\ pc' = [pc EXCEPT ![s] = "done"]
                 /\ UNCHANGED <<messages, filepath>>
            ELSE /\ filepath' =
                      [filepath EXCEPT ![s] = Join(SAVE_DIR[s], VideoName(DateTimeNow(now)))]
                 /\ pc' = [pc EXCEPT ![s] = "open"]
                 /\ UNCHANGED messages
  /\ UNCHANGED <<shared, SAVE_DIR, inputs, listing, inference, saved_path, preview,
                 save_video_calls, touched, status>>

Open(s) ==
  /\ pc[s] = "open"
  /\ fs' = OpenForWrite(fs, filepath[s])
  /\ touched' = [touched EXCEPT ![s] = @ \cup {filepath[s]}]
  /\ pc' = [pc EXCEPT ![s] = "write"]
  /\ UNCHANGED <<sharing, tmpCount, now, SAVE_DIR, inputs, listing, inference, response,
                 filepath, saved_path, preview, save_video_calls, page>>

Write(s) ==
  /\ pc[s] = "write"
  /\ fs' = WriteFile(fs, filepath[s], response[s].content)
  /\ pc' = [pc EXCEPT ![s] = "return"]
  /\ UNCHANGED <<sharing, tmpCount, now, SAVE_DIR, inputs, listing, inference, saving,
                 page>>

\* save_video returns filepath; main() shows the result
Return(s) ==
  /\ pc[s] = "return"
  /\ saved_path' = [saved_path EXCEPT ![s] = filepath[s]]
  /\ preview' =
       [preview EXCEPT ![s] =
          [path |-> filepath[s], content |-> ReadFile(fs, filepath[s])]]
  /\ messages' =
       [messages EXCEPT ![s] =
          @ \cup {"success"}
            \cup (IF form[s].negative_prompt # "" THEN {"negative_prompt"} ELSE {})]
  /\ pc' = [pc EXCEPT ![s] = "done"]
  /\ UNCHANGED <<shared, SAVE_DIR, inputs, listing, inference, response, filepath,
                 save_video_calls, touched, status>>

(***************************************************************************)
(* The whole system: every session, every input, the clock.                *)
(***************************************************************************)
Next ==
  \/ Tick
  \/ \E s \in Sessions : Rerun(s, Uploads, Forms)
  \/ \E s \in Sessions : History(s)
  \/ \E s \in Sessions : Replicate(s, Outputs)
  \/ \E s \in Sessions : Fetch(s, Responses)
  \/ \E s \in Sessions : Open(s)
  \/ \E s \in Sessions : Write(s)
  \/ \E s \in Sessions : Return(s)

Spec == Init /\ [][Next]_vars

(***************************************************************************)
(* One browser session: every input, the clock.                            *)
(***************************************************************************)
User == CHOOSE s \in Sessions : TRUE

NextSession ==
  \/ Tick
  \/ Rerun(User, Uploads, Forms)
  \/ History(User)
  \/ Replicate(User, Outputs)
  \/ Fetch(User, Responses)
  \/ Open(User)
  \/ Write(User)
  \/ Return(User)

SpecSession == Init /\ [][NextSession]_vars

(***************************************************************************)
(* Concurrent sessions that all submit an image and get a locator back,    *)
(* within one second of the wall clock.                                    *)
(***************************************************************************)
SharedUploads == {[present |-> TRUE, mode |-> "RGB"]}

SharedOutputs == {[type |-> "str", value |-> Https \o <<"v">>]}

SharedResponses == {r \in Responses : r.kind = "response" /\ r.status_code = 200}

NextShared ==
  \/ \E s \in Sessions : Rerun(s, SharedUploads, {DefaultForm})
  \/ \E s \in Sessions : History(s)
  \/ \E s \in Sessions : Replicate(s, SharedOutputs)
  \/ \E s \in Sessions : Fetch(s, SharedResponses)
  \/ \E s \in Sessions : Open(s)
  \/ \E s \in Sessions : Write(s)
  \/ \E s \in Sessions : Return(s)

SpecShared == Init /\ [][NextShared]_vars

(***************************************************************************)
(* Vocabulary of the properties.                                           *)
(***************************************************************************)
\* color modes that carry an alpha channel
HasAlpha(m) == m \in {"RGBA", "LA", "PA"}

\* a success status of the video retrieval: the 200 class
SuccessStatus(c) == c \in 200..299

DownloadSucceeded(r) == r.kind = "response" /\ SuccessStatus(r.status_code)

DownloadFailed(r) ==
  \/ r.kind = "exception"
  \/ r.kind = "response" /\ ~SuccessStatus(r.status_code)

ErrorShown(s) == messages[s] \cap ErrorMessages # {}

WellFormed(name) == ParseName(name) # ValueError

\* the datetime a is earlier than the datetime b
DateTimeLess(a, b) ==
  LET ta == <<a.year, a.month, a.day, a.hour, a.minute, a.second>>
      tb == <<b.year, b.month, b.day, b.hour, b.minute, b.second>>
  IN \E i \in 1..6 : (\A j \in 1..(i - 1) : ta[j] = tb[j]) /\ ta[i] < tb[i]

Range(seq) == {seq[i] : i \in 1..Len(seq)}

(***************************************************************************)
(* C1: a press of the generate button with no uploaded file is rejected    *)
(* with an error on the page; the run never reaches the inference call,    *)
(* never calls save_video and writes no file, whatever the other fields.   *)
(***************************************************************************)
C1_NoImageNoCall ==
  \A s \in Sessions :
    (generate_button[s] /\ ~uploaded_file[s].present) =>
      /\ pc[s] \in {"history", "done"}
      /\ replicate_calls[s] = 0
      /\ request[s] = None
      /\ save_video_calls[s] = 0
      /\ touched[s] = {}
      /\ pc[s] = "done" =>
           /\ ErrorShown(s)
           /\ "uncaught_exception" \notin messages[s] => "upload_required" \in messages[s]

C1_Witness ==
  \E s \in Sessions :
    /\ pc[s] = "done"
    /\ generate_button[s]
    /\ ~uploaded_file[s].present
    /\ form[s] # DefaultForm
    /\ "upload_required" \in messages[s]

(***************************************************************************)
(* C2: a locator output whose download succeeds ends with save_video       *)
(* returning the path kling_video_<time of the call>.mp4 under SAVE_DIR;   *)
(* when save_video returns a path the file of that name exists and holds   *)
(* exactly the downloaded body, and the path is shown as the result.       *)
(***************************************************************************)
C2_SavedFileHoldsBody ==
  [][\A s \in Sessions :
       /\ (pc[s] = "fetch" /\ DownloadSucceeded(response'[s])) => pc'[s] = "open"
       /\ (pc[s] = "return" /\ pc'[s] = "done") =>
            /\ saved_path'[s] = filepath[s]
            /\ filepath[s].dir = SAVE_DIR[s]
            /\ \E n \in 0..now : filepath[s].name = VideoName(DateTimeNow(n))
            /\ filepath[s].name \in DOMAIN fs[SAVE_DIR[s]]
            /\ ReadFile(fs, filepath[s]) = response[s].content
            /\ preview'[s].path = filepath[s]]_vars

(***************************************************************************)
(* C3: when the fetch of the locator fails, by a non-success status or by  *)
(* a transport error, save_video returns no path and an error is shown;    *)
(* the run does not end as complete without an error message.              *)
(***************************************************************************)
C3_FailedFetchShowsError ==
  \A s \in Sessions :
    (pc[s] = "done" /\ DownloadFailed(response[s])) =>
      /\ saved_path[s] = None
      /\ ErrorShown(s)
      /\ ~(status[s] = "complete" /\ ~ErrorShown(s))

(***************************************************************************)
(* C4: a run whose inference call raises or whose download fails creates   *)
(* and modifies no file of SAVE_DIR and returns no path.                   *)
(***************************************************************************)
C4_FailedRunWritesNothing ==
  \A s \in Sessions :
    (output[s].type = "exception" \/ DownloadFailed(response[s])) =>
      /\ touched[s] = {}
      /\ saved_path[s] = None
      /\ preview[s] = None
      /\ pc[s] = "done"

C4_Witness ==
  \E s \in Sessions :
    /\ pc[s] = "done"
    /\ response[s].kind = "response"
    /\ response[s].status_code = 404
    /\ \E f \in DOMAIN fs[SAVE_DIR[s]] : WellFormed(f)

(***************************************************************************)
(* C5: the history never fails because of a file name: no run ends in an   *)
(* exception of the listing, and every well-formed entry is still shown.   *)
(***************************************************************************)
C5_ListingNeverRaises ==
  \A s \in Sessions :
    /\ "uncaught_exception" \notin messages[s]
    /\ pc[s] \notin {"idle", "history"} =>
         {v \in Range(videos[s]) : WellFormed(v)} \subseteq {e.path.name : e \in Range(shown[s])}

(***************************************************************************)
(* C6: the history lists exactly the entries of SAVE_DIR that end in .mp4, *)
(* and when all of them are named kling_video_<YYYYMMDD_HHMMSS>.mp4 their  *)
(* order is that of the parsed timestamps, newest first.                   *)
(***************************************************************************)
C6_HistoryNewestFirst ==
  [][\A s \in Sessions :
       (pc[s] = "history" /\ pc'[s] # "history") =>
         LET vs == videos'[s]
         IN /\ Range(vs) = {f \in DOMAIN fs[SAVE_DIR[s]] : EndsWith(f, Suffix)}
            /\ \A i, j \in 1..Len(vs) : i # j => vs[i] # vs[j]
            /\ (\A i \in 1..Len(vs) : WellFormed(vs[i])) =>
                 \A i, j \in 1..Len(vs) :
                   i < j => DateTimeLess(ParseName(vs[j]), ParseName(vs[i]))]_vars

C6_Witness ==
  \E s \in Sessions :
    /\ Len(videos[s]) = 3
    /\ \A i \in 1..3 : WellFormed(videos[s][i])
    /\ ReadmeTxt \in DOMAIN fs[SAVE_DIR[s]]

(***************************************************************************)
(* C7: writes to SAVE_DIR are append-only: save_video never opens for      *)
(* writing a file that already exists, also when two generations complete  *)
(* within the same second.                                                 *)
(***************************************************************************)
C7_SaveNeverOverwrites ==
  [][\A s \in Sessions :
       (pc[s] = "open" /\ pc'[s] = "write") =>
         filepath[s].name \notin DOMAIN fs[filepath[s].dir]]_vars

(***************************************************************************)
(* C8: SAVE_DIR is chosen once: every later run of the script uses the     *)
(* directory the earlier runs used, in local and in cloud mode.            *)
(***************************************************************************)
C8_SaveDirChosenOnce ==
  [][\A s \in Sessions : SAVE_DIR[s] # NoDir => SAVE_DIR'[s] = SAVE_DIR[s]]_vars

(***************************************************************************)
(* C9: the image handed to image_to_base64 and sent as start_image never   *)
(* carries an alpha channel, and a non-alpha upload keeps its mode.        *)
(***************************************************************************)
C9_StartImageHasNoAlpha ==
  \A s \in Sessions :
    start_image_url[s] # None =>
      /\ ~HasAlpha(start_image_url[s].mode)
      /\ ~HasAlpha(uploaded_file[s].mode) => start_image_url[s].mode = uploaded_file[s].mode
      /\ request[s] # None => request[s].start_image = start_image_url[s]

(***************************************************************************)
(* C10: a history listing never observes a file whose body is empty or     *)
(* partial: every content it plays is a complete downloaded body.          *)
(***************************************************************************)
C10_ListingSeesWholeFiles ==
  \A s \in Sessions :
    \A i \in 1..Len(shown[s]) : shown[s][i].content \in Bodies

====
